---- MODULE Spec2Model ----
(***************************************************************************)
(* Model of TransactionProcessor (src/src/transaction_processor.py): the   *)
(* rule database and its load/save cycle, the substring matcher, the batch *)
(* categorizer and the greedy similarity grouper.                          *)
(*                                                                         *)
(* A Python str is a sequence of one-character strings.  A JSON value of   *)
(* the rule database is a record [t, items]: t is "array" (items are the   *)
(* elements), "string" (items holds the one string), "number" or "absent"  *)
(* (the key is not in the object).  On disk the strings are JSON-encoded   *)
(* texts; in memory they are decoded.                                      *)
(***************************************************************************)
EXTENDS Integers, Sequences, FiniteSets, TLC

VARIABLES category_db, file, call, ret, added

vars == <<category_db, file, call, ret, added>>

-----------------------------------------------------------------------------
(* Bounds of the model. *)

MaxLen == 3
MaxRows == 2
MaxGroupRows == 3
MaxAdds == 1
MaxPairRows == 4

-----------------------------------------------------------------------------
(* Characters and strings. *)

Quote == "\""
Backslash == "\\"
Tab == "\t"
Space == " "

UpperCase == <<"A","B","C","D","E","F","G","H","I","J","K","L","M",
               "N","O","P","Q","R","S","T","U","V","W","X","Y","Z">>
LowerCase == <<"a","b","c","d","e","f","g","h","i","j","k","l","m",
               "n","o","p","q","r","s","t","u","v","w","x","y","z">>

\* str.lower() on one character
LowerChar(c) ==
    IF \E i \in 1..Len(UpperCase) : UpperCase[i] = c
    THEN LowerCase[CHOOSE i \in 1..Len(UpperCase) : UpperCase[i] = c]
    ELSE c

\* str.lower()
Lower(s) == [i \in 1..Len(s) |-> LowerChar(s[i])]

\* str.replace(" ", ""): removes the space character U+0020 and nothing else
StripSpaces(s) == SelectSeq(s, LAMBDA c : c # Space)

\* Python's `x in y` on two str values
IsSubstring(x, y) ==
    \E k \in 0..(Len(y) - Len(x)) : \A i \in 1..Len(x) : y[k + i] = x[i]

\* all sequences over S of length at most n
SeqsUpTo(S, n) == UNION {[1..k -> S] : k \in 0..n}

-----------------------------------------------------------------------------
(* json.dump / json.load on strings. *)

EscapeChar(c) ==
    IF c = Quote THEN <<Backslash, Quote>>
    ELSE IF c = Backslash THEN <<Backslash, Backslash>>
    ELSE IF c = Tab THEN <<Backslash, "t">>
    ELSE <<c>>

RECURSIVE EncodeBody(_)
EncodeBody(s) ==
    IF s = <<>> THEN <<>> ELSE EscapeChar(Head(s)) \o EncodeBody(Tail(s))

\* the JSON text json.dump writes for a str
EncodeString(s) == <<Quote>> \o EncodeBody(s) \o <<Quote>>

DecodeError == [ok |-> FALSE, s |-> <<>>]

RECURSIVE ScanString(_, _, _)
ScanString(text, i, acc) ==
    IF i > Len(text) THEN DecodeError
    ELSE IF text[i] = Quote
         THEN IF i = Len(text) THEN [ok |-> TRUE, s |-> acc] ELSE DecodeError
    ELSE IF text[i] = Backslash
         THEN IF i + 1 > Len(text) THEN DecodeError
              ELSE IF text[i + 1] \in {Quote, Backslash}
                   THEN ScanString(text, i + 2, Append(acc, text[i + 1]))
              ELSE IF text[i + 1] = "t"
                   THEN ScanString(text, i + 2, Append(acc, Tab))
              ELSE DecodeError
    ELSE IF text[i] = Tab THEN DecodeError
    ELSE ScanString(text, i + 1, Append(acc, text[i]))

\* the str json.load reads from a JSON string text, or a JSONDecodeError
DecodeString(text) ==
    IF Len(text) < 2 \/ text[1] # Quote THEN DecodeError
    ELSE ScanString(text, 2, <<>>)

Absent == [t |-> "absent", items |-> <<>>]
Number == [t |-> "number", items |-> <<>>]
Array(items) == [t |-> "array", items |-> items]
String(s) == [t |-> "string", items |-> <<s>>]

EncodeValue(v) == [t |-> v.t, items |-> [i \in 1..Len(v.items) |-> EncodeString(v.items[i])]]
DecodeValue(v) == [t |-> v.t, items |-> [i \in 1..Len(v.items) |-> DecodeString(v.items[i]).s]]
ValueDecodes(v) == \A i \in 1..Len(v.items) : DecodeString(v.items[i]).ok

Keys == {"descriptions", "business_labels", "retailer_labels", "version"}

\* json.dump(self.category_db, f): every key of the dict is written
JsonDump(db) == [kind |-> "object", fields |-> [k \in Keys |-> EncodeValue(db[k])]]

\* len(x) and x[i] on a loaded JSON value: a str counts its characters
Elems(v) ==
    IF v.t = "string" THEN [i \in 1..Len(v.items[1]) |-> <<v.items[1][i]>>]
    ELSE v.items
PyLen(v) == Len(Elems(v))
HasLen(v) == v.t \in {"array", "string"}

-----------------------------------------------------------------------------
(* The default rule database (mapping_rules) and the files a processor can *)
(* be constructed from.                                                    *)

None == [some |-> FALSE, s |-> <<>>]
Some(s) == [some |-> TRUE, s |-> s]

\* `x if x else ""`
OrEmpty(x) == IF x.some /\ x.s # <<>> THEN x.s ELSE <<>>

mapping_rules == <<
    <<<<"o","a","k","h","u","r","s","t">>, Some(<<"O","a","k","h","u","r","s","t">>), None>>,
    <<<<"p","l","e","a","s","a","n","t","o","n">>, Some(<<"P","e","r","s","o","n","a","l">>), None>>,
    <<<<"s","a","n"," ","r","a","m","o","n">>, Some(<<"P","e","r","s","o","n","a","l">>), None>>,
    <<<<"d","u","b","l","i","n">>, Some(<<"P","e","r","s","o","n","a","l">>), None>>,
    <<<<"a","m","a","z","o","n">>, None, Some(<<"A","m","a","z","o","n">>)>>,
    <<<<"c","o","s","t","c","o">>, None, Some(<<"C","o","s","t","c","o">>)>> >>

\* the two label lists taken from each other's column
DefaultDb_Swapped ==
    [descriptions |-> Array([i \in 1..Len(mapping_rules) |-> mapping_rules[i][1]]),
     business_labels |-> Array([i \in 1..Len(mapping_rules) |-> OrEmpty(mapping_rules[i][3])]),
     retailer_labels |-> Array([i \in 1..Len(mapping_rules) |-> OrEmpty(mapping_rules[i][2])]),
     version |-> Absent]

DefaultDb ==
    [descriptions |-> Array([i \in 1..Len(mapping_rules) |-> mapping_rules[i][1]]),
     business_labels |-> Array([i \in 1..Len(mapping_rules) |-> OrEmpty(mapping_rules[i][2])]),
     retailer_labels |-> Array([i \in 1..Len(mapping_rules) |-> OrEmpty(mapping_rules[i][3])]),
     version |-> Absent]

Missing == [kind |-> "missing", fields |-> [k \in Keys |-> Absent]]
Garbage == [kind |-> "garbage", fields |-> [k \in Keys |-> Absent]]
\* a JSON text whose top-level value is no object (an array, a number, null)
NonObject == [kind |-> "nonobject", fields |-> [k \in Keys |-> Absent]]
Object(d, b, r, v) ==
    [kind |-> "object",
     fields |-> [descriptions |-> d, business_labels |-> b,
                 retailer_labels |-> r, version |-> v]]

Texts(strs) == Array([i \in 1..Len(strs) |-> EncodeString(strs[i])])

Biz == <<"B","i","z">>
Other == <<"O","t","h","e","r">>
Shop == <<"S","h","o","p">>
Mart == <<"M","a","r","t">>
Manual == <<"M","a","n","u","a","l">>

\* the files at the paths other than the save destination
SourceContent ==
    [overlap |-> Object(Texts(<<<<"a"," ","b">>, <<"B">>, <<"a","b">>>>),
                        Texts(<<<<>>, Biz, Other>>),
                        Texts(<<Shop, <<>>, Mart>>), Absent),
     duplicate |-> Object(Texts(<<<<"a">>, <<"a">>, <<>> >>),
                          Texts(<<Biz, Other, <<>> >>),
                          Texts(<<<<>>, <<>>, Shop>>), Absent),
     escapes |-> Object(Texts(<<<<"a","\t","b">>>>),
                        Texts(<<<<"\"","Q","\"">>>>),
                        Texts(<<<<"S","\\">>>>), Absent),
     extra |-> Object(Texts(<<<<"b">>>>), Texts(<<Biz>>), Texts(<<Shop>>), Number),
     empty |-> Object(Texts(<<>>), Texts(<<>>), Texts(<<>>), Absent),
     unequal |-> Object(Texts(<<<<"a">>, <<"b">>>>), Texts(<<Biz>>), Texts(<<Shop>>), Absent),
     unequal_last |-> Object(Texts(<<<<"a">>>>), Texts(<<Biz>>), Texts(<<Shop, Mart>>), Absent),
     unequal_no_retailer |-> Object(Texts(<<<<"a">>, <<"b">>>>), Texts(<<Biz>>), Absent, Absent),
     no_descriptions |-> Object(Absent, Texts(<<Biz>>), Texts(<<Shop>>), Absent),
     no_retailer |-> Object(Texts(<<<<"a">>>>), Texts(<<Biz>>), Absent, Absent),
     bad_escape |-> Object(Array(<<<<Quote, Backslash, "x", Quote>>>>),
                           Texts(<<Biz>>), Texts(<<Shop>>), Absent),
     garbage |-> Garbage,
     nonobject |-> NonObject,
     number_field |-> Object(Number, Texts(<<Biz>>), Texts(<<Shop>>), Absent),
     number_last |-> Object(Texts(<<<<"a">>>>), Texts(<<Biz>>), Number, Absent),
     string_fields |-> Object(String(EncodeString(<<"a","b">>)),
                              String(EncodeString(<<"x","y">>)),
                              String(EncodeString(<<"z","w">>)), Absent)]

Sources == DOMAIN SourceContent
NoPath == "None"
Dest == "dest"
Paths == {NoPath, Dest} \cup Sources

\* what open(path, 'r') finds
Content(path, disk) == IF path = Dest THEN disk ELSE SourceContent[path]

-----------------------------------------------------------------------------
(* _load_category_db and save_category_db. *)

FileDecodes(disk) == \A k \in Keys : ValueDecodes(disk.fields[k])

\* no length check at all
Mismatched_Never(x, y) == FALSE

\* one link of the chained comparison `len(..) == len(..) == len(..)` fails
Mismatched(x, y) == PyLen(x) # PyLen(y)

\* The outcome of the try block of _load_category_db on an existing file:
\* "ok", "mismatch" (the warning branch), or the exception raised.  The
\* chained comparison evaluates db["retailer_labels"] only when the first
\* two lengths are equal.
TryLoad(disk) ==
    LET d == DecodeValue(disk.fields["descriptions"])
        b == DecodeValue(disk.fields["business_labels"])
        r == DecodeValue(disk.fields["retailer_labels"])
    IN  IF disk.kind = "garbage" \/ ~FileDecodes(disk) THEN "JSONDecodeError"
        ELSE IF disk.kind # "object" THEN "TypeError"
        ELSE IF d.t = "absent" THEN "KeyError"
        ELSE IF ~HasLen(d) THEN "TypeError"
        ELSE IF b.t = "absent" THEN "KeyError"
        ELSE IF ~HasLen(b) THEN "TypeError"
        ELSE IF Mismatched(d, b) THEN "mismatch"
        ELSE IF r.t = "absent" THEN "KeyError"
        ELSE IF ~HasLen(r) THEN "TypeError"
        ELSE IF Mismatched(b, r) THEN "mismatch"
        ELSE "ok"

\* the exceptions the except clause catches
Caught == {"JSONDecodeError", "KeyError"}

\* _load_category_db(category_file) with `disk` the file at the save
\* destination: the database returned (or the exception raised), what is
\* printed, and the destination file afterwards.
load_category_db(category_file, disk) ==
    LET src == Content(category_file, disk)
        exists == category_file # NoPath /\ src.kind # "missing"
        outcome == IF exists THEN TryLoad(src) ELSE "absent"
    IN  IF outcome = "ok"
        THEN [raised |-> "", printed |-> "",
              db |-> [k \in Keys |-> DecodeValue(src.fields[k])], file |-> disk]
        ELSE IF outcome = "mismatch"
        THEN [raised |-> "", printed |-> "Warning", db |-> DefaultDb, file |-> disk]
        ELSE IF outcome \in Caught
        THEN [raised |-> "", printed |-> "Error", db |-> DefaultDb, file |-> disk]
        ELSE IF outcome = "absent"
        THEN [raised |-> "", printed |-> "", db |-> DefaultDb,
              file |-> IF category_file = Dest THEN JsonDump(DefaultDb) ELSE disk]
        ELSE [raised |-> outcome, printed |-> "", db |-> DefaultDb, file |-> disk]

\* the three sequences of the rule database
descriptions(db) == Elems(db["descriptions"])
business_labels(db) == Elems(db["business_labels"])
retailer_labels(db) == Elems(db["retailer_labels"])

-----------------------------------------------------------------------------
(* _match_description and categorize_transaction.  Rule indices are        *)
(* Python's: the first rule has index 0.                                   *)

\* the key phrase is not lowercased
KeyMatches_CaseSensitive(key_phrase, description) ==
    IsSubstring(StripSpaces(key_phrase), StripSpaces(description))

\* `key_phrase.lower().replace(" ", "") in description.replace(" ", "")`,
\* with description already lowercased
KeyMatches(key_phrase, description) ==
    IsSubstring(StripSpaces(Lower(key_phrase)), StripSpaces(description))

RECURSIVE match_loop(_, _, _, _)
match_loop(keys, description, idx, matches) ==
    IF idx >= Len(keys) THEN matches
    ELSE match_loop(keys, description, idx + 1,
                    IF KeyMatches(keys[idx + 1], description)
                    THEN Append(matches, idx) ELSE matches)

match_description(db, description) ==
    match_loop(descriptions(db), Lower(description), 0, <<>>)

\* the last matching rule wins: `if label: current = label`
ApplyLabel_LastWins(label, current) == IF label # <<>> THEN label ELSE current

\* `if label and not current: current = label`
ApplyLabel(label, current) ==
    IF label # <<>> /\ current = <<>> THEN label ELSE current

RECURSIVE apply_loop(_, _, _, _, _)
apply_loop(db, matches, k, business_type, retailer) ==
    IF k > Len(matches) THEN <<business_type, retailer>>
    ELSE LET idx == matches[k]
         IN  IF idx >= Len(business_labels(db)) \/ idx >= Len(retailer_labels(db))
             THEN apply_loop(db, matches, k + 1, business_type, retailer)
             ELSE apply_loop(db, matches, k + 1,
                             ApplyLabel(business_labels(db)[idx + 1], business_type),
                             ApplyLabel(retailer_labels(db)[idx + 1], retailer))

\* without the validation of the category_db structure
categorize_transaction_Unchecked(db, description) ==
    [printed |-> "",
     pair |-> apply_loop(db, match_description(db, description), 1, <<>>, <<>>)]

categorize_transaction(db, description) ==
    IF Len(descriptions(db)) # Len(business_labels(db))
       \/ Len(descriptions(db)) # Len(retailer_labels(db))
    THEN [printed |-> "Warning", pair |-> <<<<>>, <<>>>>]
    ELSE [printed |-> "",
          pair |-> apply_loop(db, match_description(db, description), 1, <<>>, <<>>)]

-----------------------------------------------------------------------------
(* categorize_transactions.  A DataFrame is the sequence of its rows; a    *)
(* row carries its index label.                                            *)

\* result.at[i, col] = value: every row labelled i is written
At(result, i, col, value) ==
    [k \in 1..Len(result) |->
        IF result[k].index = i THEN [result[k] EXCEPT ![col] = value] ELSE result[k]]

\* the matcher is called only for a row with both fields empty
NeedsFill_BothEmpty(row) == row.Business_Type = <<>> /\ row.Retailer = <<>>

\* `if not row["Business Type"] or not row["Retailer"]`
NeedsFill(row) == row.Business_Type = <<>> \/ row.Retailer = <<>>

\* the business type is written whenever the matcher has one
FillsBusiness_Overwrite(row, business) == business # <<>>

\* `if not row["Business Type"] and business`
FillsBusiness(row, business) == row.Business_Type = <<>> /\ business # <<>>

\* the retailer is written only for a row that has a business type
FillsRetailer_AfterBusiness(row, retailer) == row.Business_Type # <<>> /\ retailer # <<>>

\* `if not row["Retailer"] and retailer`
FillsRetailer(row, retailer) == row.Retailer = <<>> /\ retailer # <<>>

\* the body of the loop for one row of iterrows()
FillRow(db, row, result) ==
    IF NeedsFill(row)
    THEN LET pair == categorize_transaction(db, row.Description).pair
             r1 == IF FillsBusiness(row, pair[1])
                   THEN At(result, row.index, "Business_Type", pair[1]) ELSE result
         IN  IF FillsRetailer(row, pair[2])
             THEN At(r1, row.index, "Retailer", pair[2]) ELSE r1
    ELSE result

RECURSIVE categorize_loop(_, _, _, _)
categorize_loop(db, df, k, result) ==
    IF k > Len(df) THEN result
    ELSE categorize_loop(db, df, k + 1, FillRow(db, df[k], result))

\* `result` bound to the caller's frame itself
copy_Alias(df) == [object |-> "df", data |-> df]

\* `result = df.copy()`: a new frame object holding the same rows
copy(df) == [object |-> "result", data |-> df]

\* iterrows() reads the rows of the copy as they were when the loop started
categorize_transactions(db, df) == categorize_loop(db, df, 1, copy(df).data)

\* the caller's frame after the call: the writes of `result.at` reach it
\* only when `result` is the same object
input_after(db, df) ==
    IF copy(df).object = "df" THEN categorize_transactions(db, df) ELSE df

-----------------------------------------------------------------------------
(* find_similar_descriptions.  SequenceMatcher(None, a, b).ratio() is      *)
(* 2.0 * M / (len(a) + len(b)), M the characters in the matching blocks.   *)
(* Positions are Python's (from 0); a threshold is a number of tenths.     *)

Min(x, y) == IF x < y THEN x ELSE y

\* the blocks a[i:i+k] == b[j:j+k] inside a[alo:ahi], b[blo:bhi], k > 0
Blocks(a, b, alo, ahi, blo, bhi) ==
    {m \in [i : alo..(ahi - 1), j : blo..(bhi - 1), k : 1..Min(ahi - alo, bhi - blo)] :
        /\ m.i + m.k <= ahi
        /\ m.j + m.k <= bhi
        /\ \A x \in 1..m.k : a[m.i + x] = b[m.j + x]}

\* the longest block; of those the one earliest in a; of those the one
\* earliest in b
find_longest_match(a, b, alo, ahi, blo, bhi) ==
    LET bs == Blocks(a, b, alo, ahi, blo, bhi)
    IN  IF bs = {} THEN [i |-> alo, j |-> blo, k |-> 0]
        ELSE CHOOSE m \in bs : \A n \in bs :
                \/ m.k > n.k
                \/ m.k = n.k /\ m.i < n.i
                \/ m.k = n.k /\ m.i = n.i /\ m.j <= n.j

RECURSIVE matching_chars(_, _, _, _, _, _)
matching_chars(a, b, alo, ahi, blo, bhi) ==
    IF alo >= ahi \/ blo >= bhi THEN 0
    ELSE LET m == find_longest_match(a, b, alo, ahi, blo, bhi)
         IN  IF m.k = 0 THEN 0
             ELSE m.k + matching_chars(a, b, alo, m.i, blo, m.j)
                      + matching_chars(a, b, m.i + m.k, ahi, m.j + m.k, bhi)

\* the comparison the wrong way round: `ratio() <= threshold`
IsSimilar_Flipped(desc1, desc2, threshold) ==
    LET length == Len(desc1) + Len(desc2)
        matches == matching_chars(desc1, desc2, 0, Len(desc1), 0, Len(desc2))
    IN  IF length = 0 THEN 10 <= threshold
        ELSE 2 * matches * 10 <= threshold * length

\* `SequenceMatcher(None, desc1, desc2).ratio() >= threshold`; the ratio of
\* two empty strings is 1.0
IsSimilar(desc1, desc2, threshold) ==
    LET length == Len(desc1) + Len(desc2)
        matches == matching_chars(desc1, desc2, 0, Len(desc1), 0, Len(desc2))
    IN  IF length = 0 THEN 10 >= threshold
        ELSE 2 * matches * 10 >= threshold * length

\* positions in place of the index labels
indices_Positions(df) == [k \in 1..Len(df) |-> k - 1]

\* `indices = df.index.tolist()`
indices(df) == [k \in 1..Len(df) |-> df[k].index]

\* only the seed itself is passed over
Skipped_SeedOnly(i, j, grouped) == i = j

\* `if i == j or j in grouped: continue`
Skipped(i, j, grouped) == i = j \/ j \in grouped

\* the inner loop over j for the seed at position i
RECURSIVE inner_loop(_, _, _, _, _)
inner_loop(df, threshold, i, j, st) ==
    IF j >= Len(df) THEN st
    ELSE IF Skipped(i, j, st.grouped)
         THEN inner_loop(df, threshold, i, j + 1, st)
    ELSE IF IsSimilar(df[i + 1].Description, df[j + 1].Description, threshold)
         THEN inner_loop(df, threshold, i, j + 1,
                         [group |-> Append(st.group, indices(df)[j + 1]),
                          grouped |-> st.grouped \cup {j}])
    ELSE inner_loop(df, threshold, i, j + 1, st)

\* groups of any size are kept
Emitted_Any(group) == Len(group) > 0

\* `if len(group) > 1`
Emitted(group) == Len(group) > 1

RECURSIVE outer_loop(_, _, _, _, _)
outer_loop(df, threshold, i, grouped, groups) ==
    IF i >= Len(df) THEN groups
    ELSE IF i \in grouped THEN outer_loop(df, threshold, i + 1, grouped, groups)
    ELSE LET st == inner_loop(df, threshold, i, 0,
                              [group |-> <<indices(df)[i + 1]>>,
                               grouped |-> grouped \cup {i}])
         IN  outer_loop(df, threshold, i + 1, st.grouped,
                        IF Emitted(st.group) THEN Append(groups, st.group) ELSE groups)

find_similar_descriptions(df, threshold) ==
    IF df = <<>> THEN <<>> ELSE outer_loop(df, threshold, 0, {}, <<>>)

-----------------------------------------------------------------------------
(* The inputs of the calls. *)

DescChars == {"a", "A", "b", Space, Tab}

\* descriptions long enough for the default rules
FixedDescriptions ==
    {<<"A","m","a","z","o","n"," ","P","r","i","m","e">>,
     <<"S","A","N"," ","R","A","M","O","N"," ","c","o","s","t","c","o">>,
     <<"O","A","K","H","U","R","S","T">>}

Descriptions == SeqsUpTo(DescChars, MaxLen) \cup FixedDescriptions

Row(index, description, business_type, retailer) ==
    [index |-> index, Description |-> description,
     Business_Type |-> business_type, Retailer |-> retailer]

\* the index of a frame read from a CSV file is 0, 1, 2, ...; a frame
\* filtered from it keeps the labels of the rows that are left
Indexings == {"range", "filtered"}
IndexLabel(indexing, k) == IF indexing = "range" THEN k - 1 ELSE 2 * k - 1

\* the frames of at most n rows with the given descriptions and labels
Frames(descs, labels, n) ==
    UNION {{[k \in 1..Len(c) |->
                Row(IndexLabel(x, k), c[k].Description, c[k].Business_Type, c[k].Retailer)] :
            c \in SeqsUpTo([Description : descs, Business_Type : labels,
                            Retailer : labels], n)} : x \in Indexings}

BatchDescriptions == {<<"a", "b">>, <<"B">>, <<"a", Tab, "b">>, <<"A","m","a","z","o","n"," ","P","r","i","m","e">>}
BatchFrames == Frames(BatchDescriptions, {<<>>, Manual}, MaxRows)

\* "aba" and "bca" are a pair whose ratio depends on the order of the two
GroupDescriptions ==
    {<<>>, <<"a">>, <<"a", "a", "a">>, <<"a", "b">>, <<"c", "b">>,
     <<"a", "b", "a">>, <<"b", "c", "a">>}
\* two descriptions only, for frames long enough to hold two groups
PairDescriptions == {<<"a">>, <<"c", "b">>}
GroupFrames ==
    Frames(GroupDescriptions, {<<>>}, MaxGroupRows)
        \cup Frames(PairDescriptions, {<<>>}, MaxPairRows)

\* the slider of the application: 0.1 to 0.9 in steps of 0.1
Thresholds == 1..9
DefaultThreshold == 6

AddRules == {<<<<"w","a","l","m","a","r","t">>, <<"R","e","t","a","i","l">>, <<"W","a","l","m","a","r","t">>>>, <<<<"a">>, <<>>, Shop>>}

\* the inputs of the calls in the life cycle of the rule database
SomeDescriptions == {<<"a", "b">>, <<"A","m","a","z","o","n"," ","P","r","i","m","e">>}
SomeFrames ==
    {<<Row(0, <<"a", "b">>, <<>>, <<>>), Row(1, <<"A","m","a","z","o","n"," ","P","r","i","m","e">>, Manual, <<>>)>>,
     <<Row(1, <<"a">>, <<>>, <<>>), Row(3, <<"a", "a">>, <<>>, <<>>)>>}

-----------------------------------------------------------------------------
(* The processor: its rule database, the file at the save destination, the *)
(* last call and what it returned; `added` lists the rules add_category    *)
(* was called with on this processor.                                      *)

NoCall ==
    [op |-> "", category_file |-> NoPath, description |-> <<>>, df |-> <<>>,
     threshold |-> 0, rule |-> <<<<>>, <<>>, <<>>>>]
NoRet ==
    [raised |-> "", printed |-> "", pair |-> <<<<>>, <<>>>>, matches |-> <<>>,
     df |-> <<>>, input |-> <<>>, groups |-> <<>>]

\* setUp of the tests: TransactionProcessor() with no file
Init ==
    /\ category_db = load_category_db(NoPath, Missing).db
    /\ file = Missing
    /\ call = NoCall
    /\ ret = NoRet
    /\ added = <<>>

\* processor = TransactionProcessor(category_file); when __init__ raises,
\* the caller is left with the processor it had
Construct(paths) ==
    \E category_file \in paths :
        LET r == load_category_db(category_file, file)
        IN  /\ category_db' = IF r.raised = "" THEN r.db ELSE category_db
            /\ added' = IF r.raised = "" THEN <<>> ELSE added
            /\ file' = r.file
            /\ call' = [NoCall EXCEPT !.op = "TransactionProcessor",
                                      !.category_file = category_file]
            /\ ret' = [NoRet EXCEPT !.raised = r.raised, !.printed = r.printed]

SaveCategoryDb ==
    /\ file' = JsonDump(category_db)
    /\ call' = [NoCall EXCEPT !.op = "save_category_db", !.category_file = Dest]
    /\ ret' = NoRet
    /\ UNCHANGED <<category_db, added>>

\* the class defines no add_category: the call raises AttributeError
AddCategory ==
    \E rule \in AddRules :
        /\ Len(added) < MaxAdds
        /\ added' = Append(added, rule)
        /\ call' = [NoCall EXCEPT !.op = "add_category", !.rule = rule]
        /\ ret' = [NoRet EXCEPT !.raised = "AttributeError"]
        /\ UNCHANGED <<category_db, file>>

MatchDescription(descs) ==
    \E description \in descs :
        /\ call' = [NoCall EXCEPT !.op = "_match_description",
                                  !.description = description]
        /\ ret' = [NoRet EXCEPT !.matches = match_description(category_db, description)]
        /\ UNCHANGED <<category_db, file, added>>

CategorizeTransaction(descs) ==
    \E description \in descs :
        LET r == categorize_transaction(category_db, description)
        IN  /\ call' = [NoCall EXCEPT !.op = "categorize_transaction",
                                      !.description = description]
            /\ ret' = [NoRet EXCEPT !.pair = r.pair, !.printed = r.printed]
            /\ UNCHANGED <<category_db, file, added>>

CategorizeTransactions(frames) ==
    \E df \in frames :
        /\ call' = [NoCall EXCEPT !.op = "categorize_transactions", !.df = df]
        /\ ret' = [NoRet EXCEPT !.df = categorize_transactions(category_db, df),
                                !.input = input_after(category_db, df)]
        /\ UNCHANGED <<category_db, file, added>>

FindSimilarDescriptions(frames, thresholds) ==
    \E df \in frames, threshold \in thresholds :
        /\ call' = [NoCall EXCEPT !.op = "find_similar_descriptions", !.df = df,
                                  !.threshold = threshold]
        /\ ret' = [NoRet EXCEPT !.groups = find_similar_descriptions(df, threshold)]
        /\ UNCHANGED <<category_db, file, added>>

\* the life cycle of the rule database
Next ==
    \/ Construct(Paths)
    \/ SaveCategoryDb
    \/ AddCategory
    \/ CategorizeTransaction(SomeDescriptions)
    \/ CategorizeTransactions(SomeFrames)
    \/ FindSimilarDescriptions(SomeFrames, {DefaultThreshold})

Spec == Init /\ [][Next]_vars

\* A processor constructed from any of the files, and one call on it: the
\* calls below leave the processor as it is, so a second call starts from
\* the state the first one started from.
FirstCall == call = NoCall

InitLoaded ==
    \E category_file \in Paths \ {Dest} :
        /\ load_category_db(category_file, Missing).raised = ""
        /\ category_db = load_category_db(category_file, Missing).db
        /\ file = Missing
        /\ call = NoCall
        /\ ret = NoRet
        /\ added = <<>>

NextMatch ==
    \/ FirstCall /\ MatchDescription(Descriptions)
    \/ FirstCall /\ CategorizeTransaction(Descriptions)

SpecMatch == InitLoaded /\ [][NextMatch]_vars

NextBatch == FirstCall /\ CategorizeTransactions(BatchFrames)

SpecBatch == InitLoaded /\ [][NextBatch]_vars

\* the similarity grouper
NextGroup == FirstCall /\ FindSimilarDescriptions(GroupFrames, Thresholds)

SpecGroup == Init /\ [][NextGroup]_vars

\* category_db is a public attribute: a caller that assigns it, or appends
\* to one of its lists, bypasses the length check of _load_category_db.  The
\* databases assigned are the three lists of the files, as they are.
AssignedDbs ==
    {[k \in Keys |-> DecodeValue(SourceContent[src].fields[k])] :
        src \in {x \in Sources :
                    /\ SourceContent[x].kind = "object"
                    /\ FileDecodes(SourceContent[x])
                    /\ \A k \in Keys \ {"version"} : SourceContent[x].fields[k].t = "array"}}

InitAssigned ==
    /\ category_db \in AssignedDbs
    /\ file = Missing
    /\ call = NoCall
    /\ ret = NoRet
    /\ added = <<>>

NextAssigned == FirstCall /\ CategorizeTransaction(Descriptions)

SpecAssigned == InitAssigned /\ [][NextAssigned]_vars

-----------------------------------------------------------------------------
(* Properties of find_similar_descriptions (SpecGroup). *)

Range(seq) == {seq[k] : k \in 1..Len(seq)}

\* the record indices that appear in some group
Grouped(groups) == UNION {Range(groups[g]) : g \in 1..Len(groups)}

\* the members of the group that holds index x, {} when no group does
GroupOf(groups, x) ==
    UNION {Range(groups[g]) : g \in {h \in 1..Len(groups) : x \in Range(groups[h])}}

IsGroupCall == call.op = "find_similar_descriptions"

\* C1 as stated: for thresholds t1 < t2 the set of indices grouped at t2 is
\* a subset of the set of indices grouped at t1.
C1_GroupedSetMonotone ==
    IsGroupCall =>
        \A t1 \in Thresholds :
            t1 < call.threshold =>
                Grouped(ret.groups) \subseteq
                    Grouped(find_similar_descriptions(call.df, t1))

\* C1 amended: for thresholds t1 < t2 the group that holds the first input
\* record at t2 is a subset of the group that holds it at t1, and every index
\* grouped at t2 belongs at t1 to a record that has another record whose
\* similarity with it (in one order of the two) reaches t1.
C1_FirstGroupMonotone ==
    IsGroupCall /\ call.df # <<>> =>
        \A t1 \in Thresholds :
            t1 < call.threshold =>
                LET df == call.df
                    low == find_similar_descriptions(df, t1)
                IN  /\ GroupOf(ret.groups, df[1].index) \subseteq GroupOf(low, df[1].index)
                    /\ \A x \in Grouped(ret.groups) :
                          \E p, q \in 1..Len(df) :
                              /\ p # q
                              /\ df[p].index = x
                              /\ \/ 2 * matching_chars(df[p].Description, df[q].Description,
                                        0, Len(df[p].Description), 0, Len(df[q].Description)) * 10
                                      >= t1 * (Len(df[p].Description) + Len(df[q].Description))
                                 \/ 2 * matching_chars(df[q].Description, df[p].Description,
                                        0, Len(df[q].Description), 0, Len(df[p].Description)) * 10
                                      >= t1 * (Len(df[p].Description) + Len(df[q].Description))

\* the first record is grouped at the threshold of the call, and at a lower
\* threshold its group is strictly larger
C1_Witness ==
    /\ IsGroupCall
    /\ call.df # <<>>
    /\ GroupOf(ret.groups, call.df[1].index) # {}
    /\ \E t1 \in Thresholds :
          /\ t1 < call.threshold
          /\ GroupOf(ret.groups, call.df[1].index) #
                GroupOf(find_similar_descriptions(call.df, t1), call.df[1].index)

-----------------------------------------------------------------------------
(* Properties of categorize_transactions (SpecBatch). *)

IsBatchCall == call.op = "categorize_transactions"

C4_Idempotent ==
    IsBatchCall => categorize_transactions(category_db, ret.df) = ret.df

\* the first pass filled a business type and left the retailer of that
\* record empty, so the second pass calls the matcher for it again
C4_Witness ==
    /\ IsBatchCall
    /\ \E k \in 1..Len(call.df) :
          /\ call.df[k].Business_Type = <<>>
          /\ ret.df[k].Business_Type # <<>>
          /\ ret.df[k].Retailer = <<>>

-----------------------------------------------------------------------------
(* Properties of the matcher (SpecMatch). *)

Whitespace == {Space, Tab}

\* s lowercased, without the characters of `removed`
NormalForm(s, removed) ==
    SelectSeq([i \in 1..Len(s) |-> LowerChar(s[i])], LAMBDA c : c \notin removed)

\* the rules (from 1) whose key phrase is contained in the description,
\* both in normal form
MatchingRules(db, description, removed) ==
    {i \in 1..Len(descriptions(db)) :
        IsSubstring(NormalForm(descriptions(db)[i], removed),
                    NormalForm(description, removed))}

\* descriptions with the normal form of s: the normal form itself, and s
\* with one of the removed characters put in at any place
Variants(s, removed) ==
    {NormalForm(s, removed)} \cup
    {SubSeq(s, 1, k) \o <<c>> \o SubSeq(s, k + 1, Len(s)) : k \in 0..Len(s), c \in removed}

IsAscending(seq) == \A k, l \in 1..Len(seq) : k < l => seq[k] < seq[l]

\* the match list is that of the rules matching under the given normal form
MatchesAre(removed) ==
    /\ IsAscending(ret.matches)
    /\ {ret.matches[k] + 1 : k \in 1..Len(ret.matches)} =
          MatchingRules(category_db, call.description, removed)
    /\ \A d \in Variants(call.description, removed) :
          NormalForm(d, removed) = NormalForm(call.description, removed) =>
              match_description(category_db, d) = ret.matches

IsMatchCall == call.op = "_match_description"

\* C9 as stated: the matches are the rules whose key phrase, lowercased and
\* without any whitespace character, is a substring of the description in
\* the same normal form, in ascending order.
C9_MatchIgnoresWhitespace == IsMatchCall => MatchesAre(Whitespace)

\* C9 amended: the normal form lowercases and removes the space character
\* only; a tab stays and takes part in the comparison.
C9_MatchIgnoresSpaces == IsMatchCall => MatchesAre({Space})

\* a description with a tab matches a rule, and another rule that would
\* match were tabs removed does not match
C9_Witness ==
    /\ IsMatchCall
    /\ ret.matches # <<>>
    /\ Tab \in Range(call.description)
    /\ MatchingRules(category_db, call.description, Whitespace) #
          MatchingRules(category_db, call.description, {Space})

IsCategorizeCall == call.op = "categorize_transaction"

\* the rules (from 1) that match and carry a label in `labels`
Labelled(db, description, labels) ==
    {i \in MatchingRules(db, description, {Space}) : i <= Len(labels) /\ labels[i] # <<>>}

\* the label of the lowest such rule, the empty string when there is none
FirstLabel(db, description, labels) ==
    IF Labelled(db, description, labels) = {} THEN <<>>
    ELSE labels[CHOOSE i \in Labelled(db, description, labels) :
                    \A j \in Labelled(db, description, labels) : i <= j]

\* C10: the business type is the business label of the lowest-index matching
\* rule with a non-empty business label, the retailer that of the
\* lowest-index matching rule with a non-empty retailer label, each the
\* empty string when there is no such rule.
C10_FirstMatchWins ==
    IsCategorizeCall =>
        /\ ret.pair[1] = FirstLabel(category_db, call.description,
                                    business_labels(category_db))
        /\ ret.pair[2] = FirstLabel(category_db, call.description,
                                    retailer_labels(category_db))

\* two matching rules carry different business labels, and the retailer
\* comes from another rule than the business type
C10_Witness ==
    /\ IsCategorizeCall
    /\ ret.pair[1] # <<>>
    /\ ret.pair[2] # <<>>
    /\ \E i, j \in Labelled(category_db, call.description, business_labels(category_db)) :
          business_labels(category_db)[i] # business_labels(category_db)[j]
    /\ \A i \in 1..Len(descriptions(category_db)) :
          ~(/\ business_labels(category_db)[i] = ret.pair[1]
            /\ retailer_labels(category_db)[i] = ret.pair[2])

-----------------------------------------------------------------------------
(* Properties of the rule database and its files (Spec). *)

IsConstructCall == call.op = "TransactionProcessor"

\* the three sequences of a database, side by side
Rules(db) == <<descriptions(db), business_labels(db), retailer_labels(db)>>

\* C5: after save_category_db(dest), a fresh TransactionProcessor(dest) holds
\* the three sequences that were saved, element by element, and each rule
\* add_category was called with, on a database that began as the defaults,
\* is found at its index behind the default rules.
C5_SaveLoadRoundTrip ==
    [][(/\ call.op = "save_category_db"
        /\ Len(descriptions(category_db)) >= Len(mapping_rules)
        /\ SubSeq(descriptions(category_db), 1, Len(mapping_rules)) = descriptions(DefaultDb)
        /\ call'.op = "TransactionProcessor"
        /\ call'.category_file = Dest)
       => /\ ret'.raised = ""
          /\ Rules(category_db') = Rules(category_db)
          /\ Len(descriptions(category_db')) >= Len(mapping_rules) + Len(added)
          /\ \A k \in 1..Len(added) :
                /\ descriptions(category_db')[Len(mapping_rules) + k] = added[k][1]
                /\ business_labels(category_db')[Len(mapping_rules) + k] = added[k][2]
                /\ retailer_labels(category_db')[Len(mapping_rules) + k] = added[k][3]]_vars

\* C6: add_category(key_phrase, business_label, retailer_label) makes each of
\* the three sequences one element longer, with the given value last and
\* the earlier rules as they were.
C6_AddCategoryAppends ==
    [][call'.op = "add_category"
       => /\ ret'.raised = ""
          /\ descriptions(category_db') = Append(descriptions(category_db), call'.rule[1])
          /\ business_labels(category_db') = Append(business_labels(category_db), call'.rule[2])
          /\ retailer_labels(category_db') = Append(retailer_labels(category_db), call'.rule[3])]_vars

\* C7: the three sequences of the rule database have the same length.
C7_ParallelLengths ==
    /\ Len(descriptions(category_db)) = Len(business_labels(category_db))
    /\ Len(business_labels(category_db)) = Len(retailer_labels(category_db))

\* a processor constructed from a file whose sequences differ in length
C7_Witness ==
    /\ IsConstructCall
    /\ call.category_file = "unequal_last"
    /\ ret.raised = ""
    /\ ret.printed = "Warning"
    /\ Len(descriptions(category_db)) = Len(mapping_rules)

\* a source that parses to an object holding three arrays of equal length
WellFormed(src) ==
    /\ src.kind = "object"
    /\ FileDecodes(src)
    /\ \A k \in {"descriptions", "business_labels", "retailer_labels"} :
          src.fields[k].t = "array"
    /\ Len(src.fields["descriptions"].items) = Len(src.fields["business_labels"].items)
    /\ Len(src.fields["business_labels"].items) = Len(src.fields["retailer_labels"].items)

\* C8: constructing the processor from an existing source that is not well
\* formed does not raise and leaves the rule database equal to the defaults.
C8_LoadFallbackTotal ==
    (/\ IsConstructCall
     /\ call.category_file # NoPath
     /\ Content(call.category_file, file).kind # "missing"
     /\ ~WellFormed(Content(call.category_file, file)))
    => /\ ret.raised = ""
       /\ category_db = DefaultDb

-----------------------------------------------------------------------------
(* categorize_transaction on a rule database of mismatched lengths         *)
(* (SpecAssigned).                                                         *)

LengthsDiffer(db) ==
    \/ Len(descriptions(db)) # Len(business_labels(db))
    \/ Len(descriptions(db)) # Len(retailer_labels(db))
    \/ Len(business_labels(db)) # Len(retailer_labels(db))

\* C11: when the three sequences differ in length, categorize_transaction
\* returns ("", "") for every description, does not raise, and leaves the
\* rule database as it was.
C11_MismatchDegradesSafely ==
    [][(call'.op = "categorize_transaction" /\ LengthsDiffer(category_db))
       => /\ ret'.pair = <<<<>>, <<>>>>
          /\ ret'.raised = ""
          /\ category_db' = category_db]_vars

\* the call was made on a database of mismatched lengths, with a description
\* that matches a rule whose business label is set
C11_Witness ==
    /\ IsCategorizeCall
    /\ LengthsDiffer(category_db)
    /\ ret.printed = "Warning"
    /\ \E i \in MatchingRules(category_db, call.description, {Space}) :
          i <= Len(business_labels(category_db)) /\ business_labels(category_db)[i] # <<>>

-----------------------------------------------------------------------------
(* The groups of find_similar_descriptions (SpecGroup). *)

\* the positions (from 1) of the records of df labelled x
Positions(df, x) == {p \in 1..Len(df) : df[p].index = x}

\* ratio(a, b) >= threshold / 10, with a as the first sequence
RatioReaches(a, b, threshold) ==
    IF Len(a) + Len(b) = 0 THEN TRUE
    ELSE 20 * matching_chars(a, b, 0, Len(a), 0, Len(b)) >= threshold * (Len(a) + Len(b))

\* C12: every group has at least 2 members, its first member belongs to no
\* earlier group, and every other member's description has a similarity
\* with the first member's description (the seed's, given first) that
\* reaches the threshold.
C12_SeedOnlyMembership ==
    IsGroupCall =>
        \A g \in 1..Len(ret.groups) :
            LET group == ret.groups[g]
            IN  /\ Len(group) >= 2
                /\ \A h \in 1..(g - 1) : group[1] \notin Range(ret.groups[h])
                /\ \A k \in 2..Len(group) :
                      \E s \in Positions(call.df, group[1]), m \in Positions(call.df, group[k]) :
                          RatioReaches(call.df[s].Description, call.df[m].Description,
                                       call.threshold)

\* a group with two members besides the seed that are not similar to each
\* other, in either order
C12_Witness ==
    /\ IsGroupCall
    /\ \E g \in 1..Len(ret.groups) :
          \E k, l \in 2..Len(ret.groups[g]) :
              \E m \in Positions(call.df, ret.groups[g][k]),
                 n \in Positions(call.df, ret.groups[g][l]) :
                  /\ ~RatioReaches(call.df[m].Description, call.df[n].Description,
                                   call.threshold)
                  /\ ~RatioReaches(call.df[n].Description, call.df[m].Description,
                                   call.threshold)

\* C16: every listed value is the index label of a record of the input;
\* the groups come in increasing input position of their first members; and
\* inside a group the positions increase from the first member on.
C16_OrderAndLabels ==
    IsGroupCall =>
        /\ \A g \in 1..Len(ret.groups) :
              \A k \in 1..Len(ret.groups[g]) :
                  Positions(call.df, ret.groups[g][k]) # {}
        /\ \A g, h \in 1..Len(ret.groups) :
              g < h =>
                  \A p \in Positions(call.df, ret.groups[g][1]),
                     q \in Positions(call.df, ret.groups[h][1]) : p < q
        /\ \A g \in 1..Len(ret.groups) :
              \A k, l \in 1..Len(ret.groups[g]) :
                  k < l =>
                      \A p \in Positions(call.df, ret.groups[g][k]),
                         q \in Positions(call.df, ret.groups[g][l]) : p < q

\* two groups were returned for an input whose index labels are not its
\* positions, the seed of the second standing before a member of the first
C16_Witness ==
    /\ IsGroupCall
    /\ Len(ret.groups) >= 2
    /\ \A p \in 1..Len(call.df) : call.df[p].index # p - 1
    /\ \E k \in 2..Len(ret.groups[1]) :
          \E p \in Positions(call.df, ret.groups[1][k]),
             q \in Positions(call.df, ret.groups[2][1]) : q < p

\* C17: no index appears twice in the groups of one call, and no member of
\* a group stands before the group's seed in the input (every record before
\* a seed was consumed by an earlier seed or was a seed itself).
C17_Disjoint ==
    IsGroupCall =>
        /\ \A g, h \in 1..Len(ret.groups) :
              \A k \in 1..Len(ret.groups[g]), l \in 1..Len(ret.groups[h]) :
                  ret.groups[g][k] = ret.groups[h][l] => g = h /\ k = l
        /\ \A g \in 1..Len(ret.groups) :
              \A k \in 2..Len(ret.groups[g]) :
                  \A s \in Positions(call.df, ret.groups[g][1]),
                     m \in Positions(call.df, ret.groups[g][k]) : s < m

\* a record that stayed a singleton, left out of the group of a later seed
\* whose similarity with it reaches the threshold
C17_Witness ==
    /\ IsGroupCall
    /\ \E g \in 1..Len(ret.groups) :
          \E s \in Positions(call.df, ret.groups[g][1]) :
              \E p \in 1..(s - 1) :
                  /\ call.df[p].index \notin Grouped(ret.groups)
                  /\ RatioReaches(call.df[s].Description, call.df[p].Description,
                                  call.threshold)

-----------------------------------------------------------------------------
(* The external form and the defaults of the rule database (Spec). *)

\* C13 as stated: a file written by save_category_db holds the fields
\* descriptions, business_labels and retailer_labels and no other, whatever
\* fields the source of the database carried.
C13_SaveWritesThreeFields ==
    call.op = "save_category_db" =>
        /\ file.kind = "object"
        /\ \A k \in Keys :
              file.fields[k].t # "absent"
                  <=> k \in {"descriptions", "business_labels", "retailer_labels"}

\* C14: a processor constructed without a source holds exactly these 6
\* rules, in this order.
C14_DefaultRules ==
    (call = NoCall \/ (IsConstructCall /\ call.category_file = NoPath)) =>
        Rules(category_db) =
            << << <<"o","a","k","h","u","r","s","t">>,
                  <<"p","l","e","a","s","a","n","t","o","n">>,
                  <<"s","a","n"," ","r","a","m","o","n">>,
                  <<"d","u","b","l","i","n">>,
                  <<"a","m","a","z","o","n">>,
                  <<"c","o","s","t","c","o">> >>,
               << <<"O","a","k","h","u","r","s","t">>,
                  <<"P","e","r","s","o","n","a","l">>,
                  <<"P","e","r","s","o","n","a","l">>,
                  <<"P","e","r","s","o","n","a","l">>,
                  <<>>,
                  <<>> >>,
               << <<>>, <<>>, <<>>, <<>>,
                  <<"A","m","a","z","o","n">>,
                  <<"C","o","s","t","c","o">> >> >>

\* a processor constructed without a source while the file on disk holds
\* another database
C14_Witness ==
    /\ IsConstructCall
    /\ call.category_file = NoPath
    /\ ret.raised = ""
    /\ file.kind = "object"
    /\ file # JsonDump(category_db)

-----------------------------------------------------------------------------
(* The frame given to categorize_transactions (SpecBatch). *)

\* C15: after categorize_transactions the caller's frame is as it was given,
\* and the frame returned has the same records in the same order, each with
\* the index label and the description of the input's.
C15_InputNotMutated ==
    IsBatchCall =>
        /\ ret.input = call.df
        /\ Len(ret.df) = Len(call.df)
        /\ \A k \in 1..Len(call.df) :
              /\ ret.df[k].index = call.df[k].index
              /\ ret.df[k].Description = call.df[k].Description

\* the call filled a field: the frame returned differs from the one given
C15_Witness ==
    /\ IsBatchCall
    /\ ret.df # call.df
    /\ ret.input = call.df

====
